---- MODULE Spec2Model ----
(***************************************************************************)
(* Med-vision-detect: the Experiment Runner (src/Experiments.py) and the   *)
(* Benchmark Runner (src/Benchmark.py) as state machines.                  *)
(*                                                                         *)
(* Text (a directory name, a command-line argument, a line of captured     *)
(* output) is a sequence of one-character strings, so that substring       *)
(* tests, splitting, the regular expression \d+\.?\d* and float() are      *)
(* computed character by character as Python computes them.  Two code      *)
(* points outside ASCII are written by name: "U+2705" is the check mark    *)
(* the benchmark table prints, "U+00B2" is SUPERSCRIPT TWO (a character    *)
(* str.isdigit accepts and \d does not).                                   *)
(***************************************************************************)
EXTENDS Integers, Sequences, FiniteSets, TLC

VARIABLES
    \* ---- Benchmark Runner (src/Benchmark.py) ----
    train_dir,          \* "present" | "missing": does runs/train exist
    experiment_folders, \* line 10: the directories of runs/train, in iterdir order
    files,              \* the dataset configuration files, by dataset name
    initial_files,      \* the files as they were when the process started
    file_ops,           \* every open() of a configuration file, in order
    all_results,        \* line 20: the collected result rows
    calls,              \* every subprocess.run of the benchmark, in order
    bpc,                \* position: "start" | "loop" | "quant" | "running" (a
                        \* benchmark in flight) | "done" | "crashed" | "interrupted"
    exp_i,              \* index of the current experiment folder (1-based)
    config_i,           \* index of the current quantization profile (1-based)
    data_yaml,          \* lines 34-39: dataset of the current experiment
    data_config,        \* line 50: the configuration held in memory
    original_val,       \* line 53
    csv_file,           \* runs/benchmark_results.csv: NoFile, or the rows written
    \* ---- Experiment Runner (src/Experiments.py) ----
    epc,                \* position: "loop" | "running" | "done" | "crashed"
    dataset_i,          \* index into datasets (1-based)
    freeze_i,           \* index into freeze_options (1-based)
    runs,               \* every command handed to subprocess.run, in order
    statuses,           \* the exit status of every invocation that returned
    \* ---- one benchmark attempt taken alone (Benchmark.py lines 80-147) ----
    ppc,                \* "input" | "parsed"
    p_returncode,       \* result.returncode
    p_stdout,           \* result.stdout
    p_stderr,           \* result.stderr
    p_metrics,          \* what lines 90-128 extract from p_stdout + p_stderr
    p_rows              \* the rows collected by the attempt: none or one

bvars == <<train_dir, experiment_folders, files, initial_files, file_ops,
           all_results, calls, bpc, exp_i, config_i, data_yaml, data_config,
           original_val, csv_file>>
evars == <<epc, dataset_i, freeze_i, runs, statuses>>
pvars == <<ppc, p_returncode, p_stdout, p_stderr, p_metrics, p_rows>>
vars == <<bvars, evars, pvars>>

\* Python's None.  Every value the model compares None with is a tuple: a
\* float is the pair Float builds, a path is a non-empty text.
None == <<>>

-----------------------------------------------------------------------------
(***************************************************************************)
(* Text                                                                    *)
(***************************************************************************)
Digits == {"0", "1", "2", "3", "4", "5", "6", "7", "8", "9"}

DigitVal(c) ==
    CASE c = "0" -> 0 [] c = "1" -> 1 [] c = "2" -> 2 [] c = "3" -> 3
      [] c = "4" -> 4 [] c = "5" -> 5 [] c = "6" -> 6 [] c = "7" -> 7
      [] c = "8" -> 8 [] c = "9" -> 9

DigitChar(n) == CHOOSE c \in Digits : DigitVal(c) = n

\* the ASCII characters U+0020 to U+005F, in code-point order
AsciiOrder == <<
    " ", "!", "\"", "#", "$", "%", "&", "'", "(", ")", "*", "+", ",", "-", ".", "/",
    "0", "1", "2", "3", "4", "5", "6", "7", "8", "9", ":", ";", "<", "=", ">", "?",
    "@", "A", "B", "C", "D", "E", "F", "G", "H", "I", "J", "K", "L", "M", "N", "O",
    "P", "Q", "R", "S", "T", "U", "V", "W", "X", "Y", "Z", "[", "\\", "]", "^", "_" >>

\* the ASCII characters U+0061 to U+007E, in code-point order
AsciiOrderLower == <<
    "a", "b", "c", "d", "e", "f", "g", "h", "i", "j", "k", "l", "m", "n", "o", "p",
    "q", "r", "s", "t", "u", "v", "w", "x", "y", "z", "{", "|", "}", "~" >>

UpperCase == <<"A", "B", "C", "D", "E", "F", "G", "H", "I", "J", "K", "L", "M", "N", "O", "P", "Q", "R", "S", "T", "U", "V", "W", "X", "Y", "Z">>
LowerCase == <<"a", "b", "c", "d", "e", "f", "g", "h", "i", "j", "k", "l", "m", "n", "o", "p", "q", "r", "s", "t", "u", "v", "w", "x", "y", "z">>

\* str.isdigit, per character (Benchmark.py line 96): the decimal digits and
\* the other characters of numeric type Digit, here SUPERSCRIPT TWO
IsDigit(c) == c \in Digits \cup {"U+00B2"}

\* str.lower, per character
LowerChar(c) ==
    IF \E i \in 1..Len(UpperCase) : UpperCase[i] = c
    THEN LowerCase[CHOOSE i \in 1..Len(UpperCase) : UpperCase[i] = c]
    ELSE c

\* str.lower (Benchmark.py line 96)
Lower(s) == [i \in 1..Len(s) |-> LowerChar(s[i])]

\* `needle in hay` for strings
Contains(hay, needle) ==
    \E i \in 1..(Len(hay) - Len(needle) + 1) :
        SubSeq(hay, i, i + Len(needle) - 1) = needle

\* ord(c): the code point of a character, which is what Python compares
\* strings by
Ord(c) ==
    CASE c = "\n" -> 10
      [] c = "U+00B2" -> 178
      [] c = "U+2705" -> 9989
      [] \E i \in 1..Len(AsciiOrder) : AsciiOrder[i] = c ->
            31 + CHOOSE i \in 1..Len(AsciiOrder) : AsciiOrder[i] = c
      [] \E i \in 1..Len(AsciiOrderLower) : AsciiOrderLower[i] = c ->
            96 + CHOOSE i \in 1..Len(AsciiOrderLower) : AsciiOrderLower[i] = c

\* Python's s < t for strings: lexicographic by code point
RECURSIVE StrLess(_, _)
StrLess(s, t) ==
    IF t = <<>> THEN FALSE
    ELSE IF s = <<>> THEN TRUE
    ELSE IF s[1] = t[1] THEN StrLess(Tail(s), Tail(t))
    ELSE Ord(s[1]) < Ord(t[1])

\* str.split(sep) for a one-character separator: the pieces between the
\* occurrences of sep, one more piece than occurrences
Split(s, sep) ==
    LET at == {i \in 1..Len(s) : s[i] = sep}
        \* the position of the k-th occurrence; 0 before the first, Len(s) + 1
        \* after the last
        Pos(k) == IF k = 0 THEN 0
                  ELSE IF k > Cardinality(at) THEN Len(s) + 1
                  ELSE CHOOSE i \in at : Cardinality({j \in at : j < i}) = k - 1
    IN  [k \in 1..(Cardinality(at) + 1) |-> SubSeq(s, Pos(k - 1) + 1, Pos(k) - 1)]

\* str(n) for n >= 0
RECURSIVE IntToStr(_)
IntToStr(n) ==
    IF n < 10 THEN <<DigitChar(n)>>
    ELSE Append(IntToStr(n \div 10), DigitChar(n % 10))

\* str(b) for a bool
BoolToStr(b) == IF b THEN <<"T", "r", "u", "e">> ELSE <<"F", "a", "l", "s", "e">>

\* sep.join(parts)
RECURSIVE Join(_, _)
Join(parts, sep) ==
    IF parts = <<>> THEN <<>>
    ELSE IF Len(parts) = 1 THEN parts[1]
    ELSE parts[1] \o sep \o Join(Tail(parts), sep)

-----------------------------------------------------------------------------
(***************************************************************************)
(* re.findall(r'\d+\.?\d*', line) and float()                              *)
(***************************************************************************)
\* the number of leading decimal digits of s
DigitRun(s) ==
    IF \A i \in 1..Len(s) : s[i] \in Digits THEN Len(s)
    ELSE (CHOOSE i \in 1..Len(s) :
            /\ s[i] \notin Digits
            /\ \A j \in 1..(i - 1) : s[j] \in Digits) - 1

\* the length of the match of \d+\.?\d* at the head of s (s[1] is a digit):
\* all the digits, then a dot if one follows, then all the digits after it
MatchLen(s) ==
    LET n == DigitRun(s)
        rest == SubSeq(s, n + 1, Len(s))
    IN  IF rest # <<>> /\ rest[1] = "."
        THEN n + 1 + DigitRun(Tail(rest))
        ELSE n

\* re.findall(r'\d+\.?\d*', s): the non-overlapping matches, left to right;
\* each starts at the first decimal digit after the match before it
RECURSIVE FindNumbers(_)
FindNumbers(s) ==
    IF \A i \in 1..Len(s) : s[i] \notin Digits THEN <<>>
    ELSE LET start == CHOOSE i \in 1..Len(s) :
                        /\ s[i] \in Digits
                        /\ \A j \in 1..(i - 1) : s[j] \notin Digits
             from == SubSeq(s, start, Len(s))
             n == MatchLen(from)
         IN  <<SubSeq(from, 1, n)>> \o FindNumbers(SubSeq(from, n + 1, Len(from)))

\* the value of a digit string, most significant digit first
RECURSIVE DigitsValue(_)
DigitsValue(ds) ==
    IF ds = <<>> THEN 0
    ELSE DigitsValue(SubSeq(ds, 1, Len(ds) - 1)) * 10 + DigitVal(ds[Len(ds)])

\* a digit string without its trailing zeros
RECURSIVE StripTrailingZeros(_)
StripTrailingZeros(ds) ==
    IF ds # <<>> /\ ds[Len(ds)] = "0"
    THEN StripTrailingZeros(SubSeq(ds, 1, Len(ds) - 1))
    ELSE ds

\* float(tok) for a match of \d+\.?\d*: the decimal number it writes, as the
\* pair of its integer part and its fraction digits ("5.", "5.0" and "05" are
\* the same float; "0.70" and "0.7" are).  Exact while the token has at most
\* 15 significant digits.
Float(tok) ==
    LET n == DigitRun(tok)
    IN  <<DigitsValue(SubSeq(tok, 1, n)),
          StripTrailingZeros(SubSeq(tok, n + 2, Len(tok)))>>

-----------------------------------------------------------------------------
(***************************************************************************)
(* The output scraper: Benchmark.py lines 90-128                           *)
(***************************************************************************)
\* line 96: any(char.isdigit() for char in line)
AnyDigit(line) == \E i \in 1..Len(line) : IsDigit(line[i])

\* line 96: the heuristic that recognises the validation summary line
IsSummaryCandidate(line) == Contains(Lower(line), <<"a", "l", "l">>) /\ AnyDigit(line)

\* line 113: the heuristic that recognises the benchmark table line
IsTableCandidate(line) ==
    /\ Contains(line, <<"P", "y", "T", "o", "r", "c", "h">>)
    /\ Contains(line, <<"U+2705">>)
    /\ Contains(line, <<"|">>)

\* ScanSummary without the break of line 102: the last such line decides
RECURSIVE ScanSummaryLast(_)
ScanSummaryLast(lines) ==
    IF lines = <<>> THEN [map50 |-> None, map50_95 |-> None]
    ELSE LET parts == FindNumbers(lines[Len(lines)])
         IN  IF IsSummaryCandidate(lines[Len(lines)]) /\ Len(parts) >= 6
             THEN [map50 |-> Float(parts[5]), map50_95 |-> Float(parts[6])]
             ELSE ScanSummaryLast(SubSeq(lines, 1, Len(lines) - 1))

\* lines 92-104: the first candidate line with at least six numbers decides
RECURSIVE ScanSummary(_)
ScanSummary(lines) ==
    IF lines = <<>> THEN [map50 |-> None, map50_95 |-> None]
    ELSE LET parts == FindNumbers(lines[1])
         IN  IF IsSummaryCandidate(lines[1]) /\ Len(parts) >= 6
             THEN [map50 |-> Float(parts[5]), map50_95 |-> Float(parts[6])]
             ELSE ScanSummary(Tail(lines))

\* lines 107-128, but for line 124: the first candidate line with at least
\* five numbers decides
RECURSIVE ScanTable(_)
ScanTable(lines) ==
    IF lines = <<>>
    THEN [size_mb |-> None, map50_95_table |-> None,
          inference_time |-> None, fps |-> None]
    ELSE LET numbers == FindNumbers(lines[1])
         IN  IF IsTableCandidate(lines[1]) /\ Len(numbers) >= 5
             THEN [size_mb |-> Float(numbers[2]),
                   map50_95_table |-> Float(numbers[3]),
                   inference_time |-> Float(numbers[4]),
                   fps |-> Float(numbers[5])]
             ELSE ScanTable(Tail(lines))

\* ResolveMap without the test of line 124: the table's value always wins
ResolveMapTableFirst(summary_value, table_value) ==
    IF table_value = None THEN summary_value ELSE table_value

\* lines 124-125: the table's mAP50-95 stands in when the summary gave none
ResolveMap(summary_value, table_value) ==
    IF summary_value = None THEN table_value ELSE summary_value

\* lines 83, 91-128: the metrics scraped from one benchmark's captured streams
ExtractMetrics(stdout, stderr) ==
    LET output == stdout \o stderr
        lines == Split(output, "\n")
        s == ScanSummary(lines)
        t == ScanTable(lines)
    IN  [map50 |-> s.map50,
         map50_95 |-> ResolveMap(s.map50_95, t.map50_95_table),
         size_mb |-> t.size_mb,
         inference_time |-> t.inference_time,
         fps |-> t.fps]

-----------------------------------------------------------------------------
(***************************************************************************)
(* Benchmark Runner: names, configuration files, rows                      *)
(***************************************************************************)
\* lines 13-17
quant_configs == <<
    [half |-> FALSE, int8 |-> FALSE, name |-> <<"F", "P", "3", "2">>],
    [half |-> TRUE,  int8 |-> FALSE, name |-> <<"F", "P", "1", "6">>],
    [half |-> FALSE, int8 |-> TRUE,  name |-> <<"I", "N", "T", "8">>] >>

\* lines 35, 37, 39: the three dataset configuration files
BreastCancerYaml == <<"D", "a", "t", "a", "/", "B", "r", "e", "a", "s", "t", "C", "a", "n", "c", "e", "r", "/", "d", "a", "t", "a", ".", "y", "a", "m", "l">>
BloodCellYaml == <<"D", "a", "t", "a", "/", "B", "l", "o", "o", "d", "C", "e", "l", "l", "/", "d", "a", "t", "a", ".", "y", "a", "m", "l">>
FractureYaml == <<"D", "a", "t", "a", "/", "F", "r", "a", "c", "t", "u", "r", "e", "/", "d", "a", "t", "a", ".", "y", "a", "m", "l">>
DataYamls == {BreastCancerYaml, BloodCellYaml, FractureYaml}

\* ModelExists with the test of line 26 left out
ModelExistsAlways(folder) == TRUE

\* line 26: model_path.exists()
ModelExists(folder) == folder.has_model

\* lines 34-42: the dataset configuration an experiment name selects, None
\* when no marker occurs in it
DataYamlOf(exp_name) ==
    IF Contains(exp_name, <<"B", "r", "e", "a", "s", "t", "C", "a", "n", "c", "e", "r">>) THEN BreastCancerYaml
    ELSE IF Contains(exp_name, <<"B", "l", "o", "o", "d", "C", "e", "l", "l">>) THEN BloodCellYaml
    ELSE IF Contains(exp_name, <<"F", "r", "a", "c", "t", "u", "r", "e">>) THEN FractureYaml
    ELSE None

\* line 24: str(exp_folder / "weights" / "best.pt")
ModelPath(exp_name) == <<"r", "u", "n", "s", "/", "t", "r", "a", "i", "n", "/">> \o exp_name \o <<"/", "w", "e", "i", "g", "h", "t", "s", "/", "b", "e", "s", "t", ".", "p", "t">>

\* A configuration file is Missing (open() raises) or holds a YAML mapping,
\* here a function from its keys to their values; Null is YAML's null.
Null == "null"
Missing == [exists |-> FALSE, content |-> <<>>]
ConfigFile(mapping) == [exists |-> TRUE, content |-> mapping]

\* dict.get(key, default)
Get(d, key, default) == IF key \in DOMAIN d THEN d[key] ELSE default

\* d[key] = value
Put(d, key, value) ==
    [k \in (DOMAIN d) \cup {key} |-> IF k = key THEN value ELSE d[k]]

\* line 53: data_config.get('val')
OriginalVal(config) == Get(config, "val", Null)

\* line 56: val points at the test split, or stays when there is no test key
RewrittenConfig(config) ==
    Put(config, "val", Get(config, "test", OriginalVal(config)))

\* RestoredConfig with the assignment of line 154 left out
RestoredConfigStale(config, orig) == config

\* line 154
RestoredConfig(config, orig) == Put(config, "val", orig)

\* lines 67-75
BenchmarkCmd(exp_name, yaml, config) ==
    << <<"y", "o", "l", "o">>, <<"b", "e", "n", "c", "h", "m", "a", "r", "k">>,
       <<"m", "o", "d", "e", "l", "=">> \o ModelPath(exp_name),
       <<"d", "a", "t", "a", "=">> \o yaml,
       <<"i", "m", "g", "s", "z", "=", "6", "4", "0">>,
       <<"h", "a", "l", "f", "=">> \o BoolToStr(config.half),
       <<"i", "n", "t", "8", "=">> \o BoolToStr(config.int8),
       <<"d", "e", "v", "i", "c", "e", "=", "c", "p", "u">> >>

\* HasKeyMetrics with `or` for the `and` of line 131
HasAnyKeyMetric(m) == m.map50_95 # None \/ m.size_mb # None

\* line 131
HasKeyMetrics(m) == m.map50_95 # None /\ m.size_mb # None

\* line 134: exp_name.split('_')[0]
DatasetField(exp_name) == Split(exp_name, "_")[1]

\* line 135
FreezeField(exp_name) ==
    IF Contains(exp_name, <<"f", "r", "e", "e", "z", "e", "_", "1", "0">>) THEN <<"F", "r", "o", "z", "e", "n">> ELSE <<"U", "n", "f", "r", "o", "z", "e", "n">>

\* lines 132-144
ResultRow(exp_name, config, m) ==
    [Experiment |-> exp_name,
     Dataset |-> DatasetField(exp_name),
     Freeze |-> FreezeField(exp_name),
     Quantization |-> config.name,
     Half_Precision |-> config.half,
     INT8 |-> config.int8,
     Model_Size_MB |-> m.size_mb,
     mAP50 |-> m.map50,
     mAP50_95 |-> m.map50_95,
     Inference_Time_ms |-> m.inference_time,
     FPS |-> m.fps]

\* lines 79-150: the rows collected after one benchmark attempt.  A result
\* is Raised (subprocess.run raised, caught at line 149) or the completed
\* process [returncode, stdout, stderr].
Raised == [raised |-> TRUE]

ResultsAfter(results, exp_name, config, r) ==
    IF r = Raised THEN results
    ELSE IF r.returncode # 0 THEN results
    ELSE LET m == ExtractMetrics(r.stdout, r.stderr)
         IN  IF HasKeyMetrics(m)
             THEN Append(results, ResultRow(exp_name, config, m))
             ELSE results

\* RowLess with 'Freeze' left out of the keys of line 163
RowLessWithoutFreeze(a, b) ==
    \/ StrLess(a.Dataset, b.Dataset)
    \/ /\ a.Dataset = b.Dataset
       /\ StrLess(a.Quantization, b.Quantization)

\* line 163: the order of sort_values(['Dataset', 'Freeze', 'Quantization'])
RowLess(a, b) ==
    \/ StrLess(a.Dataset, b.Dataset)
    \/ /\ a.Dataset = b.Dataset
       /\ \/ StrLess(a.Freeze, b.Freeze)
          \/ /\ a.Freeze = b.Freeze
             /\ StrLess(a.Quantization, b.Quantization)

\* a row put into a sorted table after every row that is not greater
RECURSIVE InsertRow(_, _)
InsertRow(sorted, row) ==
    IF sorted = <<>> THEN <<row>>
    ELSE IF RowLess(row, sorted[1]) THEN <<row>> \o sorted
    ELSE <<sorted[1]>> \o InsertRow(Tail(sorted), row)

\* line 163: df.sort_values([...]), rows with equal keys keeping their order
RECURSIVE SortValues(_)
SortValues(rows) ==
    IF rows = <<>> THEN <<>>
    ELSE InsertRow(SortValues(SubSeq(rows, 1, Len(rows) - 1)), rows[Len(rows)])

\* lines 159-167, 183: the CSV file after the report
NoFile == [written |-> FALSE, rows |-> <<>>]

CsvAfter(results) ==
    IF results # <<>>
    THEN [written |-> TRUE, rows |-> SortValues(results)]
    ELSE NoFile

-----------------------------------------------------------------------------
(***************************************************************************)
(* Benchmark Runner: the environment the model explores                    *)
(***************************************************************************)
MaxExperiments == 2

\* directory names under runs/train: the two the Experiment Runner makes for
\* one dataset, one with a prefix before the dataset name, one of no known
\* dataset
ExperimentNames == {
    <<"B", "r", "e", "a", "s", "t", "C", "a", "n", "c", "e", "r", "_", "f", "r", "e", "e", "z", "e", "_", "1", "0">>,
    <<"B", "r", "e", "a", "s", "t", "C", "a", "n", "c", "e", "r", "_", "u", "n", "f", "r", "o", "z", "e", "n">>,
    <<"v", "2", "_", "F", "r", "a", "c", "t", "u", "r", "e", "_", "f", "r", "e", "e", "z", "e", "_", "1", "0">>,
    <<"D", "e", "m", "o", "_", "u", "n", "f", "r", "o", "z", "e", "n">> }

Folders == [name : ExperimentNames, has_model : BOOLEAN]

FolderLists ==
    UNION { { s \in [1..n -> Folders] :
                \A i, j \in 1..n : i # j => s[i].name # s[j].name } :
            n \in 0..MaxExperiments }

\* a configuration file as the datasets ship it
FullConfig ==
    [k \in {"train", "val", "test"} |->
        CASE k = "train" -> "train/images" [] k = "val" -> "valid/images"
          [] k = "test" -> "test/images"]

\* the other states a configuration file may be in: not there, without a
\* test key, without a val key
OtherFiles == {
    Missing,
    ConfigFile([k \in {"train", "val"} |->
        CASE k = "train" -> "train/images" [] k = "val" -> "valid/images"]),
    ConfigFile([k \in {"train", "test"} |->
        CASE k = "train" -> "train/images" [] k = "test" -> "test/images"]) }

\* the configuration files when the process starts: all as shipped, or one
\* of those an explored directory name selects in another state
FileWorlds ==
    { [y \in DataYamls |-> ConfigFile(FullConfig)] } \cup
    { [y \in DataYamls |-> IF y = odd THEN f ELSE ConfigFile(FullConfig)] :
        odd \in {BreastCancerYaml, FractureYaml}, f \in OtherFiles }

\* captured output lines of the benchmark tool
SummaryLine == <<" ", " ", " ", " ", " ", " ", " ", " ", " ", " ", " ", " ", " ", " ", " ", " ", " ", " ", " ", "a", "l", "l", " ", " ", " ", " ", " ", " ", " ", " ", "1", "2", "0", " ", " ", " ", " ", " ", " ", " ", " ", "3", "1", "0", " ", " ", " ", " ", " ", " ", "0", ".", "9", "1", "2", " ", " ", " ", " ", " ", " ", "0", ".", "8", "7", "4", " ", " ", " ", " ", " ", " ", "0", ".", "9", "0", "3", " ", " ", " ", " ", " ", " ", "0", ".", "6", "5", "5">>
TableLine == <<"1", " ", " ", "|", " ", "P", "y", "T", "o", "r", "c", "h", " ", "|", " ", "U+2705", " ", "|", " ", "5", ".", "2", " ", "|", " ", "0", ".", "7", "3", "4", "4", " ", "|", " ", "4", ".", "4", "9", " ", "|", " ", "2", "2", "2", ".", "6", "2">>
BannerLine == <<"U", "l", "t", "r", "a", "l", "y", "t", "i", "c", "s", " ", "8", ".", "3", ".", "0", " ", "P", "y", "t", "h", "o", "n", "-", "3", ".", "1", "0", " ", "t", "o", "r", "c", "h", "-", "2", ".", "1", ".", "0", " ", "C", "P", "U">>
ErrorLine == <<"T", "r", "a", "c", "e", "b", "a", "c", "k", ":", " ", "a", "l", "l", " ", "3", " ", "e", "x", "p", "o", "r", "t", "e", "r", "s", " ", "f", "a", "i", "l", "e", "d">>

\* what a benchmark attempt may come back with in the runner's model:
\* subprocess.run raises, or the tool exits with status 0 or 1, having
\* printed the summary and the table or the summary alone
RunnerStdouts == {
    BannerLine \o <<"\n">> \o SummaryLine \o <<"\n">> \o TableLine \o <<"\n">>,
    BannerLine \o <<"\n">> \o SummaryLine \o <<"\n">> }

RunnerResults == {Raised} \cup
    [returncode : {0}, stdout : RunnerStdouts, stderr : {<<>>}] \cup
    [returncode : {1}, stdout : RunnerStdouts, stderr : {ErrorLine \o <<"\n">>}]

-----------------------------------------------------------------------------
(***************************************************************************)
(* Benchmark Runner: the process                                           *)
(***************************************************************************)
exp_folder == experiment_folders[exp_i]

\* lines 9-10: runs/train is listed; iterdir raises when it does not exist
ListExperiments ==
    /\ bpc = "start"
    /\ train_dir = "present"
    /\ bpc' = "loop"
    /\ UNCHANGED <<train_dir, experiment_folders, files, initial_files,
                   file_ops, all_results, calls, exp_i, config_i, data_yaml,
                   data_config, original_val, csv_file,
                   evars, pvars>>

ListExperimentsRaises ==
    /\ bpc = "start"
    /\ train_dir = "missing"
    /\ bpc' = "crashed"
    /\ UNCHANGED <<train_dir, experiment_folders, files, initial_files,
                   file_ops, all_results, calls, exp_i, config_i, data_yaml,
                   data_config, original_val, csv_file,
                   evars, pvars>>

\* lines 22-28: no checkpoint, next folder
SkipModelNotFound ==
    /\ bpc = "loop"
    /\ exp_i <= Len(experiment_folders)
    /\ ~ModelExists(exp_folder)
    /\ exp_i' = exp_i + 1
    /\ UNCHANGED <<train_dir, experiment_folders, files, initial_files,
                   file_ops, all_results, calls, bpc, config_i, data_yaml,
                   data_config, original_val, csv_file,
                   evars, pvars>>

\* lines 31-42: no dataset marker in the name, next folder
SkipUnknownDataset ==
    /\ bpc = "loop"
    /\ exp_i <= Len(experiment_folders)
    /\ ModelExists(exp_folder)
    /\ DataYamlOf(exp_folder.name) = None
    /\ exp_i' = exp_i + 1
    /\ UNCHANGED <<train_dir, experiment_folders, files, initial_files,
                   file_ops, all_results, calls, bpc, config_i, data_yaml,
                   data_config, original_val, csv_file,
                   evars, pvars>>

\* lines 49-50: open() raises outside any try, the process ends
ReadConfigRaises ==
    /\ bpc = "loop"
    /\ exp_i <= Len(experiment_folders)
    /\ ModelExists(exp_folder)
    /\ DataYamlOf(exp_folder.name) # None
    /\ ~files[DataYamlOf(exp_folder.name)].exists
    /\ data_yaml' = DataYamlOf(exp_folder.name)
    /\ file_ops' = Append(file_ops, <<"r", DataYamlOf(exp_folder.name)>>)
    /\ bpc' = "crashed"
    /\ UNCHANGED <<train_dir, experiment_folders, files, initial_files,
                   all_results, calls, exp_i, config_i, data_config,
                   original_val, csv_file,
                   evars, pvars>>

\* lines 34-60: the configuration is read, val is pointed at the test split
\* and the file is written back
RewriteConfig ==
    /\ bpc = "loop"
    /\ exp_i <= Len(experiment_folders)
    /\ ModelExists(exp_folder)
    /\ DataYamlOf(exp_folder.name) # None
    /\ files[DataYamlOf(exp_folder.name)].exists
    /\ LET yaml == DataYamlOf(exp_folder.name)
           config == files[yaml].content
       IN  /\ data_yaml' = yaml
           /\ original_val' = OriginalVal(config)
           /\ data_config' = RewrittenConfig(config)
           /\ files' = [files EXCEPT ![yaml] = ConfigFile(RewrittenConfig(config))]
           /\ file_ops' = file_ops \o << <<"r", yaml>>, <<"w", yaml>> >>
    /\ bpc' = "quant"
    /\ config_i' = 1
    /\ UNCHANGED <<train_dir, experiment_folders, initial_files, all_results,
                   calls, exp_i, csv_file,
                   evars, pvars>>

\* lines 63-80 up to the call: the command of the next quantization profile
\* is built and handed to subprocess.run, which blocks until the tool ends
StartBenchmark ==
    /\ bpc = "quant"
    /\ config_i <= Len(quant_configs)
    /\ LET config == quant_configs[config_i]
       IN  calls' = Append(calls,
                    [exp |-> exp_i, config |-> config.name,
                     cmd |-> BenchmarkCmd(exp_folder.name, data_yaml, config)])
    /\ bpc' = "running"
    /\ UNCHANGED <<train_dir, experiment_folders, files, initial_files,
                   file_ops, all_results, exp_i, config_i, data_yaml,
                   data_config, original_val, csv_file,
                   evars, pvars>>

\* lines 80-150: subprocess.run returns or raises an Exception (caught at
\* line 149); the row is kept or dropped and the loop goes to the next
\* profile
BenchmarkReturns ==
    /\ bpc = "running"
    /\ \E r \in RunnerResults :
        all_results' = ResultsAfter(all_results, exp_folder.name,
                                    quant_configs[config_i], r)
    /\ config_i' = config_i + 1
    /\ bpc' = "quant"
    /\ UNCHANGED <<train_dir, experiment_folders, files, initial_files,
                   file_ops, calls, exp_i, data_yaml, data_config,
                   original_val, csv_file,
                   evars, pvars>>

\* line 80, lines 152-156: the process is interrupted while it waits for the
\* tool.  KeyboardInterrupt is no Exception, so line 149 does not catch it;
\* the finally block restores the file and the process ends on the
\* interrupt: no row, no further profile, no report
InterruptBenchmark ==
    /\ bpc = "running"
    /\ data_config' = RestoredConfig(data_config, original_val)
    /\ files' = [files EXCEPT ![data_yaml] =
                    ConfigFile(RestoredConfig(data_config, original_val))]
    /\ file_ops' = Append(file_ops, <<"w", data_yaml>>)
    /\ bpc' = "interrupted"
    /\ UNCHANGED <<train_dir, experiment_folders, initial_files, all_results,
                   calls, exp_i, config_i, data_yaml, original_val, csv_file,
                   evars, pvars>>

\* lines 152-156: the loop of line 63 is over; the finally block, then the
\* next folder
RestoreConfig ==
    /\ bpc = "quant"
    /\ config_i > Len(quant_configs)
    /\ data_config' = RestoredConfig(data_config, original_val)
    /\ files' = [files EXCEPT ![data_yaml] =
                    ConfigFile(RestoredConfig(data_config, original_val))]
    /\ file_ops' = Append(file_ops, <<"w", data_yaml>>)
    /\ bpc' = "loop"
    /\ exp_i' = exp_i + 1
    /\ UNCHANGED <<train_dir, experiment_folders, initial_files, all_results,
                   calls, config_i, data_yaml, original_val, csv_file,
                   evars, pvars>>

\* lines 158-185: the table is sorted and written, or the diagnostic printed
Report ==
    /\ bpc = "loop"
    /\ exp_i > Len(experiment_folders)
    /\ csv_file' = CsvAfter(all_results)
    /\ bpc' = "done"
    /\ UNCHANGED <<train_dir, experiment_folders, files, initial_files,
                   file_ops, all_results, calls, exp_i, config_i, data_yaml,
                   data_config, original_val,
                   evars, pvars>>

Next ==
    \/ ListExperiments
    \/ ListExperimentsRaises
    \/ SkipModelNotFound
    \/ SkipUnknownDataset
    \/ ReadConfigRaises
    \/ RewriteConfig
    \/ StartBenchmark
    \/ BenchmarkReturns
    \/ InterruptBenchmark
    \/ RestoreConfig
    \/ Report

BenchmarkInit ==
    /\ train_dir \in {"present", "missing"}
    /\ experiment_folders \in FolderLists
    /\ train_dir = "missing" => experiment_folders = <<>>
    /\ files \in FileWorlds
    /\ initial_files = files
    /\ file_ops = <<>>
    /\ all_results = <<>>
    /\ calls = <<>>
    /\ bpc = "start"
    /\ exp_i = 1
    /\ config_i = 1
    /\ data_yaml = None
    /\ data_config = <<>>
    /\ original_val = Null
    /\ csv_file = NoFile

\* the Benchmark Runner not started: the other specifications hold it here
BenchmarkIdle ==
    /\ train_dir = "present"
    /\ experiment_folders = <<>>
    /\ files = [y \in DataYamls |-> Missing]
    /\ initial_files = [y \in DataYamls |-> Missing]
    /\ file_ops = <<>>
    /\ all_results = <<>>
    /\ calls = <<>>
    /\ bpc = "start"
    /\ exp_i = 1
    /\ config_i = 1
    /\ data_yaml = None
    /\ data_config = <<>>
    /\ original_val = Null
    /\ csv_file = NoFile

-----------------------------------------------------------------------------
(***************************************************************************)
(* Experiment Runner: src/Experiments.py                                   *)
(***************************************************************************)
\* line 5
datasets == << <<"D", "a", "t", "a", "/", "B", "r", "e", "a", "s", "t", "C", "a", "n", "c", "e", "r">>, <<"D", "a", "t", "a", "/", "B", "l", "o", "o", "d", "C", "e", "l", "l">>, <<"D", "a", "t", "a", "/", "F", "r", "a", "c", "t", "u", "r", "e">> >>

\* line 8: 10 for frozen, 0 for unfrozen
freeze_options == <<10, 0>>

\* lines 11-13
epochs == 30
imgsz == 640
batch == 32

\* os.path.basename: what follows the last slash
Basename(path) ==
    LET parts == Split(path, "/") IN parts[Len(parts)]

\* line 45
ProjectName(dataset_name, freeze) ==
    IF freeze > 0
    THEN dataset_name \o <<"_", "f", "r", "e", "e", "z", "e", "_">> \o IntToStr(freeze)
    ELSE dataset_name \o <<"_", "u", "n", "f", "r", "o", "z", "e", "n">>

\* lines 22-47: the command of one (dataset, freeze) pair
TrainCmd(dataset_path, freeze) ==
    LET yaml == dataset_path \o <<"/">> \o <<"d", "a", "t", "a", ".", "y", "a", "m", "l">>
        dataset_name == Basename(dataset_path)
        base == << <<"y", "o", "l", "o">>,
                   <<"t", "a", "s", "k", "=", "d", "e", "t", "e", "c", "t">>,
                   <<"m", "o", "d", "e", "=", "t", "r", "a", "i", "n">>,
                   <<"m", "o", "d", "e", "l", "=", "y", "o", "l", "o", "1", "1", "n", ".", "p", "t">>,
                   <<"d", "a", "t", "a", "=">> \o yaml,
                   <<"e", "p", "o", "c", "h", "s", "=">> \o IntToStr(epochs),
                   <<"i", "m", "g", "s", "z", "=">> \o IntToStr(imgsz),
                   <<"b", "a", "t", "c", "h", "=">> \o IntToStr(batch),
                   <<"a", "m", "p", "=">> \o BoolToStr(TRUE),
                   <<"p", "l", "o", "t", "s", "=">> \o BoolToStr(TRUE),
                   <<"d", "e", "v", "i", "c", "e", "=", "0", ",", "1">> >>
        frozen == IF freeze > 0
                  THEN Append(base, <<"f", "r", "e", "e", "z", "e", "=">> \o IntToStr(freeze))
                  ELSE base
    IN  frozen \o << <<"p", "r", "o", "j", "e", "c", "t", "=", "r", "u", "n", "s", "/", "t", "r", "a", "i", "n">>,
                     <<"n", "a", "m", "e", "=">> \o ProjectName(dataset_name, freeze) >>

\* the exit statuses the external tool may return with
ExitStatuses == {0, 1, 2}

\* NextPair with the inner loop left after its first iteration
NextPairFirstFreezeOnly(d, f) == <<d + 1, 1>>

\* lines 21, 25: the loop indices after one more iteration of the inner loop
NextPair(d, f) ==
    IF f < Len(freeze_options) THEN <<d, f + 1>> ELSE <<d + 1, 1>>

\* lines 21-50 up to the call: the command is built and the tool is started
StartTraining ==
    /\ epc = "loop"
    /\ dataset_i <= Len(datasets)
    /\ runs' = Append(runs, TrainCmd(datasets[dataset_i], freeze_options[freeze_i]))
    /\ epc' = "running"
    /\ UNCHANGED <<dataset_i, freeze_i, statuses, bvars, pvars>>

\* line 50: subprocess.run raises when the tool cannot be started; nothing
\* catches it
StartTrainingRaises ==
    /\ epc = "loop"
    /\ dataset_i <= Len(datasets)
    /\ runs' = Append(runs, TrainCmd(datasets[dataset_i], freeze_options[freeze_i]))
    /\ epc' = "crashed"
    /\ UNCHANGED <<dataset_i, freeze_i, statuses, bvars, pvars>>

\* line 50: the tool returns; its exit status is not looked at
TrainingReturns ==
    /\ epc = "running"
    /\ \E status \in ExitStatuses : statuses' = Append(statuses, status)
    /\ dataset_i' = NextPair(dataset_i, freeze_i)[1]
    /\ freeze_i' = NextPair(dataset_i, freeze_i)[2]
    /\ epc' = "loop"
    /\ UNCHANGED <<runs, bvars, pvars>>

\* the outer loop is exhausted: the script ends
ExperimentsEnd ==
    /\ epc = "loop"
    /\ dataset_i > Len(datasets)
    /\ epc' = "done"
    /\ UNCHANGED <<dataset_i, freeze_i, runs, statuses, bvars, pvars>>

NextExperiments ==
    \/ StartTraining
    \/ StartTrainingRaises
    \/ TrainingReturns
    \/ ExperimentsEnd

ExperimentInit ==
    /\ epc = "loop"
    /\ dataset_i = 1
    /\ freeze_i = 1
    /\ runs = <<>>
    /\ statuses = <<>>

-----------------------------------------------------------------------------
(***************************************************************************)
(* One benchmark attempt taken alone, on a wider range of captured texts   *)
(***************************************************************************)
MaxLines == 2

ShortSummaryLine == <<"a", "l", "l", " ", "7", " ", "9", " ", "0", ".", "8", " ", "0", ".", "6">>
OverallLine == <<"O", "v", "e", "r", "a", "l", "l", " ", "8", ".", "3", ".", "0", " ", "t", "o", "o", "k", " ", "1", " ", "2", " ", "3", " ", "4", ".", "5", "0", " ", "s">>
OtherSummaryLine == <<"a", "l", "l", " ", "5", " ", "9", " ", "0", ".", "5", " ", "0", ".", "6", " ", "0", ".", "7", "0", " ", "0", ".", "4", "0">>
TorchScriptLine == <<"2", " ", " ", "|", " ", "T", "o", "r", "c", "h", "S", "c", "r", "i", "p", "t", " ", "|", " ", "U+2705", " ", "|", " ", "1", "0", ".", "5", " ", "|", " ", "0", ".", "7", "3", "4", "4", " ", "|", " ", "6", ".", "1", " ", "|", " ", "1", "6", "3", ".", "9">>
ShortTableLine == <<"1", " ", " ", "|", " ", "P", "y", "T", "o", "r", "c", "h", " ", "|", " ", "U+2705", " ", "|", " ", "5", ".", " ", "|", " ", "0", ".", "6", "1">>
OtherTableLine == <<"1", " ", " ", "|", " ", "P", "y", "T", "o", "r", "c", "h", " ", "|", " ", "U+2705", " ", "|", " ", "0", "5", ".", "2", "0", " ", "|", " ", "0", ".", "5", " ", "|", " ", "9", ".", "1", "0", " ", "|", " ", "1", "0", "9", " ", "|", " ", "A", "L", "L">>
SuperscriptLine == <<"A", "L", "L", "U+00B2", " ", "d", "o", "n", "e">>

OutputLines == {SummaryLine, ShortSummaryLine, OverallLine, OtherSummaryLine,
                TableLine, TorchScriptLine, ShortTableLine, OtherTableLine,
                SuperscriptLine, BannerLine}

\* standard output: up to MaxLines lines, the last one not ended by a newline
StdoutTexts ==
    { Join(ls, <<"\n">>) :
        ls \in UNION { [1..n -> OutputLines] : n \in 0..MaxLines } }

\* standard error: nothing, the end of a line cut in two, or an error message
StderrTexts == { <<>>, <<" ", "0", ".", "5", " ", "0", ".", "2", "5", "\n">>, <<"\n">> \o ErrorLine \o <<"\n">> }

NoMetrics == [map50 |-> None, map50_95 |-> None, size_mb |-> None,
              inference_time |-> None, fps |-> None]

\* the experiment and the profile of the attempt
AttemptExperiment == <<"B", "r", "e", "a", "s", "t", "C", "a", "n", "c", "e", "r", "_", "f", "r", "e", "e", "z", "e", "_", "1", "0">>
AttemptConfig == quant_configs[1]

\* lines 80-147 on one completed process: nothing is extracted after a
\* non-zero exit (line 88), else the streams are scraped and the row kept or
\* dropped
Attempt ==
    /\ ppc = "input"
    /\ p_metrics' = IF p_returncode = 0
                    THEN ExtractMetrics(p_stdout, p_stderr)
                    ELSE NoMetrics
    /\ p_rows' = ResultsAfter(<<>>, AttemptExperiment, AttemptConfig,
                              [returncode |-> p_returncode,
                               stdout |-> p_stdout, stderr |-> p_stderr])
    /\ ppc' = "parsed"
    /\ UNCHANGED <<p_returncode, p_stdout, p_stderr, bvars, evars>>

AttemptInit ==
    /\ ppc = "input"
    /\ p_returncode \in {0, 1}
    /\ p_stdout \in StdoutTexts
    /\ p_stderr \in StderrTexts
    /\ p_metrics = NoMetrics
    /\ p_rows = <<>>

AttemptIdle ==
    /\ ppc = "input"
    /\ p_returncode = 0
    /\ p_stdout = <<>>
    /\ p_stderr = <<>>
    /\ p_metrics = NoMetrics
    /\ p_rows = <<>>

-----------------------------------------------------------------------------
(***************************************************************************)
(* Specifications                                                          *)
(***************************************************************************)
\* the Benchmark Runner
Init == BenchmarkInit /\ ExperimentInit /\ AttemptIdle
Spec == Init /\ [][Next]_vars

\* the Experiment Runner
InitExperiments == BenchmarkIdle /\ ExperimentInit /\ AttemptIdle
SpecExperiments == InitExperiments /\ [][NextExperiments]_vars

\* one benchmark attempt
InitAttempt == BenchmarkIdle /\ ExperimentInit /\ AttemptInit
NextAttempt == Attempt
SpecAttempt == InitAttempt /\ [][NextAttempt]_vars

-----------------------------------------------------------------------------
(***************************************************************************)
(* Properties                                                              *)
(***************************************************************************)
\* the value a reader of the file gets for key `val`: config.get('val')
ValOf(file) == Get(file.content, "val", Null)

\* the folders whose iteration of the loop of line 22 has ended
Processed(i) == i < exp_i \/ (i = exp_i /\ bpc = "crashed")

\* the profile names of the benchmark invocations made for folder i, in order
RECURSIVE ProfilesOf(_, _)
ProfilesOf(cs, i) ==
    IF cs = <<>> THEN <<>>
    ELSE IF cs[1].exp = i THEN <<cs[1].config>> \o ProfilesOf(Tail(cs), i)
    ELSE ProfilesOf(Tail(cs), i)

\* the lines of the text lines 83 and 91 build from the captured streams
AttemptLines == Split(p_stdout \o p_stderr, "\n")

\* a validation-summary line with at least six numeric tokens
QualifiesAsSummary(line) ==
    /\ Contains(Lower(line), <<"a", "l", "l">>)
    /\ \E i \in 1..Len(line) : IsDigit(line[i])
    /\ Len(FindNumbers(line)) >= 6

\* a benchmark-table line with at least five numeric tokens
QualifiesAsTable(line) ==
    /\ Contains(line, <<"P", "y", "T", "o", "r", "c", "h">>)
    /\ Contains(line, <<"U+2705">>)
    /\ Contains(line, <<"|">>)
    /\ Len(FindNumbers(line)) >= 5

\* the first line of the attempt's text that satisfies Q (Q holds of one)
FirstLine(Q(_)) ==
    AttemptLines[CHOOSE i \in 1..Len(AttemptLines) :
                    /\ Q(AttemptLines[i])
                    /\ \A j \in 1..(i - 1) : ~Q(AttemptLines[j])]

HasLine(Q(_)) == \E i \in 1..Len(AttemptLines) : Q(AttemptLines[i])

\* C1: outside the pass over an experiment (before it began, once it has
\* finished, and when the process has ended: normally, on an uncaught
\* exception, or interrupted while a benchmark ran) every configuration
\* file gives for `val` the value it gave when the process started; during a
\* pass this holds of every file but the one of the experiment.
C1_ValRestored ==
    \A y \in DataYamls :
        (bpc \notin {"quant", "running"} \/ y # data_yaml) =>
            /\ files[y].exists = initial_files[y].exists
            /\ ValOf(files[y]) = ValOf(initial_files[y])

\* a finished run in which a file with a test key was rewritten and restored
\* while some profiles gave a row and some did not
C1_Witness ==
    /\ bpc = "done"
    /\ all_results # <<>>
    /\ Len(all_results) < Len(calls)
    /\ \E k \in 1..Len(file_ops) :
        /\ file_ops[k][1] = "w"
        /\ "test" \in DOMAIN initial_files[file_ops[k][2]].content
        /\ "val" \in DOMAIN initial_files[file_ops[k][2]].content

\* C2: no error is escalated to process failure: neither runner ever ends
\* on an uncaught exception.
C2_NoProcessFailure == bpc # "crashed" /\ epc # "crashed"

\* C3: an attempt collects a row only when the process exited with status
\* zero and both the model size and a resolved mAP50-95 were obtained from
\* the captured output, and every row it collects has both fields set.
C3_RowOnlyWithKeyMetrics ==
    ppc = "parsed" =>
        /\ p_rows # <<>> =>
            /\ p_returncode = 0
            /\ HasLine(QualifiesAsTable)
            /\ HasLine(QualifiesAsSummary) \/ HasLine(QualifiesAsTable)
        /\ \A k \in 1..Len(p_rows) :
            /\ p_rows[k].Model_Size_MB # None
            /\ p_rows[k].mAP50_95 # None

\* an attempt that exited with status zero, found the summary's mAP50-95 and
\* no model size, and collected nothing
C3_Witness ==
    /\ ppc = "parsed"
    /\ p_returncode = 0
    /\ HasLine(QualifiesAsSummary)
    /\ ~HasLine(QualifiesAsTable)
    /\ p_metrics.map50_95 # None
    /\ p_rows = <<>>

\* C4: every experiment that passed the checkpoint and dataset checks and
\* whose iteration has ended got exactly three benchmark invocations, FP32,
\* FP16, INT8 in this order.
C4_ThreeInvocations ==
    \A i \in 1..Len(experiment_folders) :
        ( /\ Processed(i)
          /\ experiment_folders[i].has_model
          /\ DataYamlOf(experiment_folders[i].name) # None )
        => ProfilesOf(calls, i) = << <<"F", "P", "3", "2">>, <<"F", "P", "1", "6">>, <<"I", "N", "T", "8">> >>

\* C5: the iteration over a folder without checkpoint changes no
\* configuration file, opens none, invokes no subprocess and collects no row;
\* it only moves to the next folder.
C5_MissingCheckpointFrame ==
    [][ ( /\ bpc = "loop"
          /\ exp_i <= Len(experiment_folders)
          /\ ~experiment_folders[exp_i].has_model )
        => /\ files' = files
           /\ file_ops' = file_ops
           /\ calls' = calls
           /\ all_results' = all_results
           /\ bpc' = "loop"
           /\ exp_i' = exp_i + 1 ]_vars

\* the first folder had no checkpoint though its dataset is known and its
\* configuration file is there, and its iteration is over
C5_Witness ==
    /\ exp_i > 1
    /\ ~experiment_folders[1].has_model
    /\ DataYamlOf(experiment_folders[1].name) # None
    /\ files[DataYamlOf(experiment_folders[1].name)].exists
    /\ "test" \in DOMAIN files[DataYamlOf(experiment_folders[1].name)].content

\* C6: when the text of a successful attempt has a validation-summary line
\* with at least six numeric tokens, the extracted mAP50 and mAP50-95 are the
\* tokens at index 4 and 5 (the 5th and 6th) of the first such line.
C6_SummaryTokens ==
    (ppc = "parsed" /\ p_returncode = 0 /\ HasLine(QualifiesAsSummary)) =>
        LET parts == FindNumbers(FirstLine(QualifiesAsSummary))
        IN  /\ p_metrics.map50 = Float(parts[5])
            /\ p_metrics.map50_95 = Float(parts[6])

\* a candidate line with too few tokens ("all 7 9 0.8 0.6") comes first and
\* is skipped; the qualifying line after it decides
C6_Witness ==
    /\ ppc = "parsed"
    /\ p_returncode = 0
    /\ Len(AttemptLines) >= 2
    /\ AttemptLines[1] = ShortSummaryLine
    /\ QualifiesAsSummary(AttemptLines[2])
    /\ p_metrics.map50 = Float(FindNumbers(AttemptLines[2])[5])

\* C7: the mAP50-95 of the row a successful attempt collects is the
\* validation-summary value when a qualifying summary line exists, and the
\* benchmark-table value (token at index 2 of the first qualifying table
\* line) when none does; without a summary line a qualifying table line is
\* enough for the row.
C7_ResolvedMap ==
    (ppc = "parsed" /\ p_returncode = 0) =>
        /\ \A k \in 1..Len(p_rows) :
            p_rows[k].mAP50_95 =
                IF HasLine(QualifiesAsSummary)
                THEN Float(FindNumbers(FirstLine(QualifiesAsSummary))[6])
                ELSE Float(FindNumbers(FirstLine(QualifiesAsTable))[3])
        /\ (~HasLine(QualifiesAsSummary) /\ HasLine(QualifiesAsTable)) =>
            /\ Len(p_rows) = 1
            /\ p_rows[1].mAP50 = None
            /\ p_rows[1].mAP50_95 =
                   Float(FindNumbers(FirstLine(QualifiesAsTable))[3])

\* a row whose mAP50-95 is the table's value, there being no summary line
C7_Witness ==
    /\ ppc = "parsed"
    /\ p_returncode = 0
    /\ ~HasLine(QualifiesAsSummary)
    /\ HasLine(QualifiesAsTable)
    /\ Len(p_rows) = 1
    /\ p_rows[1].mAP50_95 = Float(<<"0", ".", "7", "3", "4", "4">>)

\* the run names of the six (dataset, freeze) pairs, dataset-major, freeze
\* 10 before freeze 0
ExpectedRunNames == <<
    <<"n", "a", "m", "e", "=", "B", "r", "e", "a", "s", "t", "C", "a", "n", "c", "e", "r", "_", "f", "r", "e", "e", "z", "e", "_", "1", "0">>, <<"n", "a", "m", "e", "=", "B", "r", "e", "a", "s", "t", "C", "a", "n", "c", "e", "r", "_", "u", "n", "f", "r", "o", "z", "e", "n">>,
    <<"n", "a", "m", "e", "=", "B", "l", "o", "o", "d", "C", "e", "l", "l", "_", "f", "r", "e", "e", "z", "e", "_", "1", "0">>, <<"n", "a", "m", "e", "=", "B", "l", "o", "o", "d", "C", "e", "l", "l", "_", "u", "n", "f", "r", "o", "z", "e", "n">>,
    <<"n", "a", "m", "e", "=", "F", "r", "a", "c", "t", "u", "r", "e", "_", "f", "r", "e", "e", "z", "e", "_", "1", "0">>, <<"n", "a", "m", "e", "=", "F", "r", "a", "c", "t", "u", "r", "e", "_", "u", "n", "f", "r", "o", "z", "e", "n">> >>

ExpectedRunData == <<
    <<"d", "a", "t", "a", "=", "D", "a", "t", "a", "/", "B", "r", "e", "a", "s", "t", "C", "a", "n", "c", "e", "r", "/", "d", "a", "t", "a", ".", "y", "a", "m", "l">>, <<"d", "a", "t", "a", "=", "D", "a", "t", "a", "/", "B", "r", "e", "a", "s", "t", "C", "a", "n", "c", "e", "r", "/", "d", "a", "t", "a", ".", "y", "a", "m", "l">>,
    <<"d", "a", "t", "a", "=", "D", "a", "t", "a", "/", "B", "l", "o", "o", "d", "C", "e", "l", "l", "/", "d", "a", "t", "a", ".", "y", "a", "m", "l">>, <<"d", "a", "t", "a", "=", "D", "a", "t", "a", "/", "B", "l", "o", "o", "d", "C", "e", "l", "l", "/", "d", "a", "t", "a", ".", "y", "a", "m", "l">>,
    <<"d", "a", "t", "a", "=", "D", "a", "t", "a", "/", "F", "r", "a", "c", "t", "u", "r", "e", "/", "d", "a", "t", "a", ".", "y", "a", "m", "l">>, <<"d", "a", "t", "a", "=", "D", "a", "t", "a", "/", "F", "r", "a", "c", "t", "u", "r", "e", "/", "d", "a", "t", "a", ".", "y", "a", "m", "l">> >>

\* C8: the invocations of the external tool are at every moment the first
\* ones of the six pairs in dataset-major order, with a freeze argument for
\* freeze 10 only; at most one is in flight, and each starts after the one
\* before it returned; whatever the exit statuses, the loop goes on to the
\* next pair and ends after exactly six invocations.
C8_SixRunsInOrder ==
    /\ Len(runs) <= 6
    /\ \A k \in 1..Len(runs) :
        /\ runs[k][Len(runs[k])] = ExpectedRunNames[k]
        /\ runs[k][5] = ExpectedRunData[k]
        /\ (\E a \in 1..Len(runs[k]) : runs[k][a] = <<"f", "r", "e", "e", "z", "e", "=", "1", "0">>) <=> (k % 2 = 1)
    /\ Len(runs) - Len(statuses) \in {0, 1}
    /\ epc = "running" => Len(runs) = Len(statuses) + 1
    /\ epc \in {"loop", "done"} => Len(runs) = Len(statuses)
    /\ (epc = "loop" /\ Len(runs) < 6) => ENABLED StartTraining
    /\ epc = "done" => Len(runs) = 6

\* the script ended normally after six invocations none of which succeeded
C8_Witness ==
    /\ epc = "done"
    /\ Len(runs) = 6
    /\ \A k \in 1..Len(statuses) : statuses[k] # 0

\* the sort key of a row, and its order
KeyLeq(a, b) ==
    \/ StrLess(a.Dataset, b.Dataset)
    \/ a.Dataset = b.Dataset /\ StrLess(a.Freeze, b.Freeze)
    \/ /\ a.Dataset = b.Dataset
       /\ a.Freeze = b.Freeze
       /\ ~StrLess(b.Quantization, a.Quantization)

Count(rows, r) == Cardinality({k \in 1..Len(rows) : rows[k] = r})

\* C9: the CSV file is written only by the report; after the report it
\* exists exactly when a row was collected, and then holds the collected
\* rows, each as often as it was collected, ordered by dataset name, then
\* freeze label, then quantization name.
C9_CsvIsSortedResults ==
    /\ bpc # "done" => ~csv_file.written
    /\ bpc = "done" =>
        /\ csv_file.written <=> all_results # <<>>
        /\ Len(csv_file.rows) = Len(all_results)
        /\ \A k \in 1..Len(all_results) :
            Count(csv_file.rows, all_results[k]) = Count(all_results, all_results[k])
        /\ \A i, j \in 1..Len(csv_file.rows) :
            i < j => KeyLeq(csv_file.rows[i], csv_file.rows[j])

\* a written file with the rows of the two experiments of one dataset, the
\* unfrozen one collected first: the freeze label decides their order
C9_Witness ==
    /\ bpc = "done"
    /\ csv_file.written
    /\ csv_file.rows # all_results
    /\ \E i, j \in 1..Len(all_results) :
        /\ i < j
        /\ all_results[i].Dataset = all_results[j].Dataset
        /\ all_results[i].Freeze = <<"U", "n", "f", "r", "o", "z", "e", "n">>
        /\ all_results[j].Freeze = <<"F", "r", "o", "z", "e", "n">>
    /\ csv_file.rows[1].Freeze = <<"F", "r", "o", "z", "e", "n">>
    /\ csv_file.rows[Len(csv_file.rows)].Freeze = <<"U", "n", "f", "r", "o", "z", "e", "n">>

\* C10: the Dataset field of every collected row names the dataset whose
\* configuration file the experiment's name selected.
C10_DatasetFieldIsMarker ==
    \A k \in 1..Len(all_results) :
        <<"D", "a", "t", "a", "/">> \o all_results[k].Dataset \o <<"/", "d", "a", "t", "a", ".", "y", "a", "m", "l">>
            = DataYamlOf(all_results[k].Experiment)

====
